---- MODULE Spec2Model ----
(***************************************************************************)
(* Model of main.py of youtube_subtitle_api: the four HTTP handlers        *)
(* (root, get_transcript, get_available_languages, get_srt_format) and the *)
(* SRT formatter (convert_to_srt, format_time).                            *)
(*                                                                         *)
(* Strings are sequences of one-character strings, so that formatting and  *)
(* padding are computed and can be parsed back.                            *)
(*                                                                         *)
(* Python floats are binary floating-point numbers.  A float here is a     *)
(* natural number n standing for n / Unit seconds (Unit = 2^FracBits)      *)
(* whose significand has at most MantBits bits; every inexact operation of *)
(* the code (the + of line 116 and the * of line 128) rounds its exact     *)
(* result to the nearest such number, ties to even, as IEEE-754 does with  *)
(* 53 bits.  The operations that IEEE-754 computes exactly (%, //, int(),  *)
(* the subtraction of the integer part) are exact here too.                *)
(*                                                                         *)
(* Spec handles one request with every transcript of up to MaxSegs         *)
(* segments, SpecConc NumRequests concurrent requests to the SRT endpoint, *)
(* SpecConvert runs convert_to_srt alone and SpecFormat format_time alone. *)
(***************************************************************************)
EXTENDS Integers, Sequences, FiniteSets, TLC

\* ------------------------------------------------------------------ bounds
FracBits == 11
MantBits == 17
MaxSegs == 2
NumRequests == 2

Unit == 2 ^ FracBits

\* ------------------------------------------------------- float arithmetic
RECURSIVE BitLen(_)
BitLen(n) == IF n = 0 THEN 0 ELSE 1 + BitLen(n \div 2)

\* round-to-nearest, ties-to-even, to MantBits significant bits
RoundNearestEven(n) ==
    IF BitLen(n) <= MantBits THEN n
    ELSE LET k == BitLen(n) - MantBits
             q == n \div (2 ^ k)
             r == n % (2 ^ k)
             half == 2 ^ (k - 1)
             up == (r > half) \/ (r = half /\ q % 2 = 1)
         IN  (IF up THEN q + 1 ELSE q) * (2 ^ k)

\* a + b of two floats (line 116)
FAdd(a, b) == RoundNearestEven(a + b)

\* x * k of a float by the integer literal k (line 128); the exact product
\* is a whole number of 1/Unit
FMulInt(x, k) == RoundNearestEven(x * k)

\* ---------------------------------------------------------------- strings
DigitChars == <<"0", "1", "2", "3", "4", "5", "6", "7", "8", "9">>

RECURSIVE DecimalStr(_)
DecimalStr(n) ==
    IF n < 10 THEN <<DigitChars[n + 1]>>
    ELSE DecimalStr(n \div 10) \o <<DigitChars[(n % 10) + 1]>>

RECURSIVE Zeros(_)
Zeros(k) == IF k <= 0 THEN <<>> ELSE <<"0">> \o Zeros(k - 1)

\* the format specs 02d and 03d: zero-pad on the left to at least w digits
ZeroPad(n, w) ==
    LET s == DecimalStr(n)
    IN  Zeros(w - Len(s)) \o s

\* ------------------------------------------------------------ format_time
Hours(x) == x \div (3600 * Unit)

MinutesNoMod(x) == x \div (60 * Unit)
Minutes(x) == (x % (3600 * Unit)) \div (60 * Unit)

\* seconds = seconds % 60 (a float)
SecondsRem(x) == x % (60 * Unit)

\* int(seconds)
WholeSeconds(x) == SecondsRem(x) \div Unit

\* seconds - int(seconds)
Fraction(x) == SecondsRem(x) - WholeSeconds(x) * Unit

MillisecondsRounded(x) == (FMulInt(Fraction(x), 1000) + (Unit \div 2)) \div Unit
Milliseconds(x) == FMulInt(Fraction(x), 1000) \div Unit

format_time(x) ==
    ZeroPad(Hours(x), 2) \o <<":">> \o ZeroPad(Minutes(x), 2) \o <<":">>
        \o ZeroPad(WholeSeconds(x), 2) \o <<",">> \o ZeroPad(Milliseconds(x), 3)

\* the timestamp string read back as a time value, in milliseconds
Digit(c) == CHOOSE d \in 0..9 : DigitChars[d + 1] = c

IsDigit(c) == \E d \in 0..9 : DigitChars[d + 1] = c

RECURSIVE Number(_)
Number(s) ==
    IF Len(s) = 0 THEN 0
    ELSE 10 * Number(SubSeq(s, 1, Len(s) - 1)) + Digit(s[Len(s)])

HourField(t) == SubSeq(t, 1, Len(t) - 10)
MinuteField(t) == SubSeq(t, Len(t) - 8, Len(t) - 7)
SecondField(t) == SubSeq(t, Len(t) - 5, Len(t) - 4)
MilliField(t) == SubSeq(t, Len(t) - 2, Len(t))

TimeValue(t) ==
    ((Number(HourField(t)) * 60 + Number(MinuteField(t))) * 60
        + Number(SecondField(t))) * 1000 + Number(MilliField(t))

\* ------------------------------------------------------------------ data
VideoIds == {"v1", "v2"}

\* language: Optional[str] = None
NoLanguage == "<None>"
Languages == {NoLanguage, "", "en"}

\* bool(language) of the tests `if language:`
Truthy(language) == language # NoLanguage /\ language # ""

Hello == <<"H", "i">>
TwoLines == <<"a", "\n", "b">>
Texts == {Hello, TwoLines}

\* 0 s, 2.5 s and 1/32 s before the hour
Starts == {RoundNearestEven(x) : x \in {0, (5 * Unit) \div 2, 3600 * Unit - Unit \div 32}}

\* 0 s, 1 s and 33/Unit s (the sum with the last start is inexact)
Durations == {RoundNearestEven(x) : x \in {0, Unit, 33}}

WellFormed == [start : Starts, duration : Durations, text : Texts]

Keys == {"start", "duration", "text"}

Without(seg, key) == [k \in Keys \ {key} |-> seg[k]]

Sample == [start |-> 0, duration |-> Unit, text |-> Hello]

\* a segment without one of the keys, and one with the text only
Malformed ==
    {Without(Sample, key) : key \in Keys} \cup {[k \in {"text"} |-> Sample[k]]}

IsWellFormed(seg) == Keys \subseteq DOMAIN seg

RECURSIVE SeqsUpTo(_, _)
SeqsUpTo(S, n) ==
    IF n = 0 THEN {<<>>}
    ELSE LET shorter == SeqsUpTo(S, n - 1)
         IN  shorter \cup {Append(t, x) : t \in shorter, x \in S}

\* what YouTubeTranscriptApi.get_transcript can return
Transcripts == SeqsUpTo(WellFormed \cup Malformed, MaxSegs)

\* ... under concurrent requests: two orders of the same segments, the empty
\* transcript and one with a malformed segment
SegA == [start |-> 0, duration |-> Unit, text |-> Hello]
SegB == [start |-> (5 * Unit) \div 2, duration |-> 33, text |-> TwoLines]
ConcTranscripts ==
    {<<>>, <<SegA, SegB>>, <<SegB, SegA>>, <<SegA, Without(SegB, "duration")>>}

\* what it can raise
NotFoundErrors == {"TranscriptsDisabled", "NoTranscriptFound"}
LibraryErrors == NotFoundErrors \cup {"RequestException"}

Returned(value) == [error |-> "none", value |-> value]
Raised(e) == [error |-> e, value |-> <<>>]
NotCalled == [error |-> "not called", value |-> <<>>]

Outcomes(T) == {Returned(t) : t \in T} \cup {Raised(e) : e \in LibraryErrors}

\* what YouTubeTranscriptApi.list_transcripts can return
English == [language |-> "English", language_code |-> "en", is_generated |-> FALSE]
Chinese == [language |-> "Chinese", language_code |-> "zh-CN", is_generated |-> TRUE]
TranscriptLists == {<<>>, <<English>>, <<Chinese, English>>}

\* --------------------------------------------------------------- the state
VARIABLES
    pc,           \* position of each request's handler
    request,      \* endpoint and parameters of each request
    calls,        \* the calls each request has made to the transcript library
    returned,     \* what the library returned or raised to each request
    transcript,   \* get_srt_format: the local variable transcript
    conv,         \* convert_to_srt: loop position and locals
    convertCalls, \* how many times each request has invoked convert_to_srt
    response,     \* the HTTP response of each request
    seconds,      \* format_time called alone: its argument
    formatted     \* ... and its result

vars == <<pc, request, calls, returned, transcript, conv, convertCalls,
          response, seconds, formatted>>

Requests == 1..NumRequests

NoRequest == [endpoint |-> "none", video_id |-> "", language |-> NoLanguage]
NoResponse == [status_code |-> 0]
NoConv == [k |-> 0, srt_content |-> <<>>, start_time |-> <<>>, end_time |-> <<>>]
NotFormatted == <<>>

\* ---------------------------------------------------------- convert_to_srt
\* segment[key]: the value, or KeyError(key)
GetItemOrDefault(seg, key) ==
    [ok |-> TRUE,
     value |-> IF key \in DOMAIN seg THEN seg[key]
               ELSE IF key = "text" THEN <<>> ELSE 0]
GetItem(seg, key) ==
    IF key \in DOMAIN seg THEN [ok |-> TRUE, value |-> seg[key]]
    ELSE [ok |-> FALSE, value |-> key]

\* enumerate(transcript, 1)
EnumerateFromZero == 1 - 1
EnumerateStart == 1

Arrow == <<" ", "-", "-", ">", " ">>

\* f"{i}\n{start_time} --> {end_time}\n{text}\n\n"
Block(i, start_time, end_time, text) ==
    DecimalStr(i) \o <<"\n">> \o start_time \o Arrow \o end_time \o <<"\n">>
        \o text \o <<"\n", "\n">>

\* segment['start'] + segment['duration']
EndFromDuration(start, duration) == duration
EndOf(start, duration) == FAdd(start, duration)

KeyError(key) == [type |-> "KeyError", key |-> key]

\* one pass of the loop body (lines 115-119) with the locals c: the locals
\* after it, or the exception it raises
LoopBody(c, seg) ==
    LET i == EnumerateStart + c.k
        s == GetItem(seg, "start")
        d == GetItem(seg, "duration")
        t == GetItem(seg, "text")
    IN  IF ~s.ok THEN [ok |-> FALSE, error |-> KeyError(s.value)]
        ELSE IF ~d.ok THEN [ok |-> FALSE, error |-> KeyError(d.value)]
        ELSE IF ~t.ok THEN [ok |-> FALSE, error |-> KeyError(t.value)]
        ELSE LET start_time == format_time(s.value)
                 end_time == format_time(EndOf(s.value, d.value))
             IN  [ok |-> TRUE,
                  locals |-> [k |-> c.k + 1,
                              srt_content |-> c.srt_content
                                  \o Block(i, start_time, end_time, t.value),
                              start_time |-> start_time,
                              end_time |-> end_time]]

\* ------------------------------------------------------------ the handlers
HTTPException(status_code, message, e) ==
    [status_code |-> status_code, detail |-> <<message, e>>]

Success(body) == [status_code |-> 200, body |-> body]

LibraryCall(fn, video_id, language) ==
    IF Truthy(language)
    THEN [fn |-> fn, video_id |-> video_id, languages |-> <<language>>]
    ELSE [fn |-> fn, video_id |-> video_id, languages |-> <<>>]

\* root (lines 37-39)
Root(r) ==
    /\ pc[r] = "idle"
    /\ request' = [request EXCEPT ![r] = [NoRequest EXCEPT !.endpoint = "root"]]
    /\ response' = [response EXCEPT ![r] = Success([message |-> "welcome"])]
    /\ pc' = [pc EXCEPT ![r] = "done"]
    /\ UNCHANGED <<calls, returned, transcript, conv, convertCalls,
                   seconds, formatted>>

\* lang of lines 50-55
LangWhenNotNone(language) == IF language # NoLanguage THEN language ELSE "auto"
LangOf(language) == IF Truthy(language) THEN language ELSE "auto"

\* lines 57-65: the body returned, or the HTTPException raised
TranscriptResult(video_id, language, outcome) ==
    IF outcome.error = "none"
    THEN Success([video_id |-> video_id, language |-> LangOf(language),
                  transcript |-> outcome.value])
    ELSE IF outcome.error \in NotFoundErrors
    THEN HTTPException(404, "transcript not found", outcome.error)
    ELSE HTTPException(500, "error getting transcript", outcome.error)

\* get_transcript (lines 41-65)
GetTranscript(r, T) ==
    /\ pc[r] = "idle"
    /\ \E video_id \in VideoIds, language \in Languages, outcome \in Outcomes(T) :
          /\ request' = [request EXCEPT ![r] =
                 [endpoint |-> "transcript", video_id |-> video_id,
                  language |-> language]]
          /\ calls' = [calls EXCEPT ![r] =
                 Append(@, LibraryCall("get_transcript", video_id, language))]
          /\ returned' = [returned EXCEPT ![r] = outcome]
          /\ response' = [response EXCEPT ![r] =
                 TranscriptResult(video_id, language, outcome)]
    /\ pc' = [pc EXCEPT ![r] = "done"]
    /\ UNCHANGED <<transcript, conv, convertCalls, seconds, formatted>>

\* lines 76-90: the body returned, or the HTTPException raised
LanguagesResult(video_id, outcome) ==
    IF outcome.error = "none"
    THEN Success([video_id |-> video_id,
                  available_languages |->
                      [n \in 1..Len(outcome.value) |->
                          [language |-> outcome.value[n].language,
                           language_code |-> outcome.value[n].language_code,
                           is_generated |-> outcome.value[n].is_generated]]])
    ELSE HTTPException(500, "error getting languages", outcome.error)

\* get_available_languages (lines 67-90)
GetAvailableLanguages(r) ==
    /\ pc[r] = "idle"
    /\ \E video_id \in VideoIds, outcome \in Outcomes(TranscriptLists) :
          /\ request' = [request EXCEPT ![r] =
                 [endpoint |-> "languages", video_id |-> video_id,
                  language |-> NoLanguage]]
          /\ calls' = [calls EXCEPT ![r] =
                 Append(@, LibraryCall("list_transcripts", video_id, NoLanguage))]
          /\ returned' = [returned EXCEPT ![r] = outcome]
          /\ response' = [response EXCEPT ![r] = LanguagesResult(video_id, outcome)]
    /\ pc' = [pc EXCEPT ![r] = "done"]
    /\ UNCHANGED <<transcript, conv, convertCalls, seconds, formatted>>

\* get_srt_format is entered (line 93)
SrtCall(r, L) ==
    /\ pc[r] = "idle"
    /\ \E video_id \in VideoIds, language \in L :
          request' = [request EXCEPT ![r] =
              [endpoint |-> "srt", video_id |-> video_id, language |-> language]]
    /\ pc' = [pc EXCEPT ![r] = "called"]
    /\ UNCHANGED <<calls, returned, transcript, conv, convertCalls, response,
                   seconds, formatted>>

\* line 109: every exception of the try block
SrtExcept(e) == HTTPException(500, "error getting SRT", e)

\* where get_srt_format goes on after the library call
RetryAfterFetch(outcome) == IF outcome.error = "none" THEN "fetched" ELSE "called"
ConvertAfterFetch(outcome) == "fetched"
PcAfterFetch(outcome) == IF outcome.error = "none" THEN "fetched" ELSE "done"

\* lines 101-104, and line 109 when the call raises
SrtFetch(r, T) ==
    /\ pc[r] = "called"
    /\ \E outcome \in Outcomes(T) :
          /\ calls' = [calls EXCEPT ![r] =
                 Append(@, LibraryCall("get_transcript", request[r].video_id,
                                       request[r].language))]
          /\ returned' = [returned EXCEPT ![r] = outcome]
          /\ transcript' = [transcript EXCEPT ![r] = outcome.value]
          /\ response' = [response EXCEPT ![r] =
                 IF outcome.error = "none" THEN NoResponse
                 ELSE SrtExcept(outcome.error)]
          /\ pc' = [pc EXCEPT ![r] = PcAfterFetch(outcome)]
    /\ UNCHANGED <<request, conv, convertCalls, seconds, formatted>>

\* the argument of convert_to_srt at line 106
FirstTranscript(r) == transcript[1]
ConvertArg(r) == transcript[r]

\* line 106 calls convert_to_srt; line 113
ConvertEnter(r) ==
    /\ pc[r] = "fetched"
    /\ convertCalls' = [convertCalls EXCEPT ![r] = @ + 1]
    /\ conv' = [conv EXCEPT ![r] = NoConv]
    /\ pc' = [pc EXCEPT ![r] = "converting"]
    /\ UNCHANGED <<request, calls, returned, transcript, response,
                   seconds, formatted>>

\* one pass of the loop (lines 114-119); a KeyError leaves convert_to_srt
\* and is caught at line 108
ConvertStep(r) ==
    /\ pc[r] = "converting"
    /\ conv[r].k < Len(ConvertArg(r))
    /\ LET res == LoopBody(conv[r], ConvertArg(r)[conv[r].k + 1])
       IN  IF res.ok
           THEN /\ conv' = [conv EXCEPT ![r] = res.locals]
                /\ UNCHANGED <<pc, response>>
           ELSE /\ response' = [response EXCEPT ![r] = SrtExcept(res.error)]
                /\ pc' = [pc EXCEPT ![r] = "done"]
                /\ UNCHANGED conv
    /\ UNCHANGED <<request, calls, returned, transcript, convertCalls,
                   seconds, formatted>>

\* the loop is over: line 121 returns srt_content, line 107 the body
ConvertReturn(r) ==
    /\ pc[r] = "converting"
    /\ conv[r].k >= Len(ConvertArg(r))
    /\ response' = [response EXCEPT ![r] =
           Success([video_id |-> request[r].video_id,
                    srt_content |-> conv[r].srt_content])]
    /\ pc' = [pc EXCEPT ![r] = "done"]
    /\ UNCHANGED <<request, calls, returned, transcript, conv, convertCalls,
                   seconds, formatted>>

\* ------------------------------------------------------- the specifications
InitRequests ==
    /\ pc = [r \in Requests |-> "idle"]
    /\ request = [r \in Requests |-> NoRequest]
    /\ calls = [r \in Requests |-> <<>>]
    /\ returned = [r \in Requests |-> NotCalled]
    /\ transcript = [r \in Requests |-> <<>>]
    /\ conv = [r \in Requests |-> NoConv]
    /\ convertCalls = [r \in Requests |-> 0]
    /\ response = [r \in Requests |-> NoResponse]

\* one request, every transcript of up to MaxSegs segments
Init ==
    /\ InitRequests
    /\ seconds = 0
    /\ formatted = NotFormatted

Next ==
    \/ Root(1)
    \/ GetTranscript(1, Transcripts)
    \/ GetAvailableLanguages(1)
    \/ SrtCall(1, Languages)
    \/ SrtFetch(1, Transcripts)
    \/ ConvertEnter(1)
    \/ ConvertStep(1)
    \/ ConvertReturn(1)

Spec == Init /\ [][Next]_vars

\* NumRequests requests to the SRT endpoint handled concurrently
NextConc ==
    \E r \in Requests :
        \/ SrtCall(r, {"en"})
        \/ SrtFetch(r, ConcTranscripts)
        \/ ConvertEnter(r)
        \/ ConvertStep(r)
        \/ ConvertReturn(r)

SpecConc == Init /\ [][NextConc]_vars

\* convert_to_srt alone, on the transcript a fetch has just returned: one
\* segment with any start within three whole seconds and a duration that is
\* zero, tiny, about a second or a minute; or two segments in any order
WideStarts ==
    {RoundNearestEven(b * Unit + f) : b \in {0, 59, 3599}, f \in 0..(Unit - 1)}

WideDurations ==
    {RoundNearestEven(x) : x \in {0, 1, 33, Unit - 1, Unit, 60 * Unit}}

ConvertInputs ==
    {<<[start |-> s, duration |-> d, text |-> Hello]>> :
        s \in WideStarts, d \in WideDurations}
    \cup {<<a, b>> : a \in WellFormed, b \in WellFormed}

InitConvert ==
    \E t \in ConvertInputs :
        /\ pc = [r \in Requests |-> IF r = 1 THEN "fetched" ELSE "idle"]
        /\ request = [r \in Requests |->
               IF r = 1
               THEN [endpoint |-> "srt", video_id |-> "v1", language |-> NoLanguage]
               ELSE NoRequest]
        /\ calls = [r \in Requests |->
               IF r = 1 THEN <<LibraryCall("get_transcript", "v1", NoLanguage)>>
               ELSE <<>>]
        /\ returned = [r \in Requests |-> IF r = 1 THEN Returned(t) ELSE NotCalled]
        /\ transcript = [r \in Requests |-> IF r = 1 THEN t ELSE <<>>]
        /\ conv = [r \in Requests |-> NoConv]
        /\ convertCalls = [r \in Requests |-> 0]
        /\ response = [r \in Requests |-> NoResponse]
        /\ seconds = 0
        /\ formatted = NotFormatted

NextConvert ==
    \/ ConvertEnter(1)
    \/ ConvertStep(1)
    \/ ConvertReturn(1)

SpecConvert == InitConvert /\ [][NextConvert]_vars

\* format_time alone
WholeSecondBases == {0, 1, 59, 60, 3599, 3600, 3661, 86399, 359999, 363597}

FormatInputs ==
    {RoundNearestEven(b * Unit + f) : b \in WholeSecondBases, f \in 0..(Unit - 1)}

InitFormat ==
    /\ InitRequests
    /\ seconds \in FormatInputs
    /\ formatted = NotFormatted

FormatTime ==
    /\ formatted = NotFormatted
    /\ formatted' = format_time(seconds)
    /\ UNCHANGED <<pc, request, calls, returned, transcript, conv,
                   convertCalls, response, seconds>>

SpecFormat == InitFormat /\ [][FormatTime]_vars

\* ================================================================== claims
SrtDone(r) == request[r].endpoint = "srt" /\ pc[r] = "done"

FetchRaised(r) == returned[r].error \in LibraryErrors

FetchReturned(r) == returned[r].error = "none"

HasBody(resp) == "body" \in DOMAIN resp

AllWellFormed(t) == \A n \in 1..Len(t) : IsWellFormed(t[n])

\* position of the first segment of t that lacks a key
FirstMalformed(t) ==
    CHOOSE n \in 1..Len(t) :
        /\ ~IsWellFormed(t[n])
        /\ \A m \in 1..(n - 1) : IsWellFormed(t[m])

\* the first key the loop body reads that seg lacks
FirstMissing(seg) ==
    IF "start" \notin DOMAIN seg THEN "start"
    ELSE IF "duration" \notin DOMAIN seg THEN "duration"
    ELSE "text"

\* the i-th block as the specification writes it
RefBlock(i, seg) ==
    DecimalStr(i) \o <<"\n">> \o format_time(seg.start) \o <<" ", "-", "-", ">", " ">>
        \o format_time(FAdd(seg.start, seg.duration)) \o <<"\n">> \o seg.text
        \o <<"\n", "\n">>

RECURSIVE RefSrt(_)
RefSrt(t) ==
    IF Len(t) = 0 THEN <<>>
    ELSE RefSrt(SubSeq(t, 1, Len(t) - 1)) \o RefBlock(Len(t), t[Len(t)])

\* C1: at the SRT endpoint a TranscriptsDisabled or NoTranscriptFound raised
\* by the fetch gives a 404 response and any other failure a 500 response.
C1_SrtNotFoundIs404 ==
    \A r \in Requests :
        SrtDone(r) /\ FetchRaised(r) =>
            response[r].status_code =
                IF returned[r].error \in NotFoundErrors THEN 404 ELSE 500

\* C2 (as stated): a transcript with a segment lacking a key makes the SRT
\* request end in a 500 response without body, whose error is an
\* "invalid segment" error.
C2_InvalidSegmentError ==
    \A r \in Requests :
        SrtDone(r) /\ FetchReturned(r) /\ ~AllWellFormed(transcript[r]) =>
            /\ response[r].status_code = 500
            /\ ~HasBody(response[r])
            /\ response[r].detail[2].type = "InvalidSegment"

\* C2 (amended): a transcript with a segment lacking a key makes
\* convert_to_srt stop at the first such segment with the KeyError of the
\* first key it reads that is missing (start, then duration, then text); no
\* SRT text is returned wherever the segment is, and the SRT request ends in
\* a 500 response without body.
C2_KeyErrorNoPartialOutput ==
    \A r \in Requests :
        SrtDone(r) /\ FetchReturned(r) /\ ~AllWellFormed(transcript[r]) =>
            LET n == FirstMalformed(transcript[r])
            IN  /\ response[r].status_code = 500
                /\ ~HasBody(response[r])
                /\ response[r].detail[2] = KeyError(FirstMissing(transcript[r][n]))
                /\ conv[r].k = n - 1

C2_Witness ==
    \E r \in Requests :
        /\ SrtDone(r) /\ FetchReturned(r)
        /\ Len(transcript[r]) = 2
        /\ IsWellFormed(transcript[r][1])
        /\ DOMAIN transcript[r][2] = {"text"}
        /\ response[r].status_code = 500

\* C3: convert_to_srt returns the concatenation, in input order, of the N
\* blocks "{i}\n{format_time(start)} --> {format_time(start+duration)}\n
\* {text}\n\n", i = 1..N, the text verbatim; the empty transcript gives the
\* empty string.  After k passes of the loop srt_content is the first k blocks.
C3_ConcatenationOfBlocks ==
    \A r \in Requests :
        /\ pc[r] = "converting" /\ AllWellFormed(SubSeq(transcript[r], 1, conv[r].k))
               => conv[r].srt_content = RefSrt(SubSeq(transcript[r], 1, conv[r].k))
        /\ SrtDone(r) /\ HasBody(response[r]) /\ AllWellFormed(transcript[r])
               => /\ response[r].body.srt_content = RefSrt(transcript[r])
                  /\ (transcript[r] = <<>> => response[r].body.srt_content = <<>>)

C3_Witness ==
    \E r \in Requests :
        /\ SrtDone(r) /\ HasBody(response[r])
        /\ Len(transcript[r]) = MaxSegs
        /\ transcript[r][1].text = TwoLines
        /\ transcript[r][1].start > transcript[r][MaxSegs].start
        /\ SubSeq(response[r].body.srt_content, 1, 2) = <<"1", "\n">>

AllDigits(s) == \A n \in 1..Len(s) : IsDigit(s[n])

\* the decimal 119999/2000 = 59.9995 on the grid of 1/Unit
Near59_9995 == (119999 * Unit + 1000) \div 2000

\* C4: format_time(s) is HH:MM:SS,mmm with two-digit minutes and seconds in
\* 0..59, three-digit milliseconds in 0..999, and hours = floor(s / 3600)
\* zero-padded to at least two digits, growing beyond two digits instead of
\* wrapping.
C4_TimeFormat ==
    formatted # NotFormatted =>
        LET t == formatted
            n == Len(t)
            h == seconds \div (3600 * Unit)
        IN  /\ n >= 12
            /\ t[n - 9] = ":" /\ t[n - 6] = ":" /\ t[n - 3] = ","
            /\ AllDigits(HourField(t)) /\ AllDigits(MinuteField(t))
            /\ AllDigits(SecondField(t)) /\ AllDigits(MilliField(t))
            /\ Number(MinuteField(t)) \in 0..59
            /\ Number(SecondField(t)) \in 0..59
            /\ Number(MilliField(t)) \in 0..999
            /\ Number(HourField(t)) = h
            /\ Len(HourField(t)) = (IF h < 100 THEN 2 ELSE IF h < 1000 THEN 3 ELSE 4)

\* an hour field of three digits
C4_Witness ==
    /\ formatted # NotFormatted
    /\ Len(HourField(formatted)) = 3
    /\ Number(HourField(formatted)) = 100
    /\ Number(MinuteField(formatted)) = 59

\* the fractional part of (s mod 60) times 1000, truncated, in exact arithmetic
ExactMillis(x) == ((x % Unit) * 1000) \div Unit

\* C5 (as stated): the millisecond field is the exact fractional part of
\* (s mod 60) times 1000, truncated toward zero and never rounded up.
C5_ExactTruncation ==
    formatted # NotFormatted =>
        Number(MilliField(formatted)) = ExactMillis(seconds)

\* C5 (amended): the millisecond field is the floating-point product
\* (fractional part of s mod 60) * 1000 truncated toward zero; as the product
\* is rounded to the nearest float, the field is the exact truncation or,
\* only when the product rounds up to a whole number of milliseconds, one
\* more.  It never exceeds 999 and never carries into the seconds, minutes or
\* hours; 0 gives 00:00:00,000, 3661.5 gives 01:01:01,500 and 59.9995 gives
\* 00:00:59,999.
C5_TruncatedFloatProduct ==
    formatted # NotFormatted =>
        LET ms == Number(MilliField(formatted))
            exact == ExactMillis(seconds)
            product == RoundNearestEven((seconds % Unit) * 1000)
        IN  /\ ms * Unit <= product /\ product < (ms + 1) * Unit
            /\ ms \in {exact, exact + 1}
            /\ (ms = exact + 1 => product = ms * Unit)
            /\ ms <= 999
            /\ Number(SecondField(formatted)) = (seconds \div Unit) % 60
            /\ Number(MinuteField(formatted)) = (seconds \div (60 * Unit)) % 60
            /\ Number(HourField(formatted)) = seconds \div (3600 * Unit)
            /\ (seconds = 0 =>
                   formatted = <<"0","0",":","0","0",":","0","0",",","0","0","0">>)
            /\ (seconds = 3661 * Unit + Unit \div 2 =>
                   formatted = <<"0","1",":","0","1",":","0","1",",","5","0","0">>)
            /\ (seconds = Near59_9995 =>
                   formatted = <<"0","0",":","0","0",":","5","9",",","9","9","9">>)

\* a product that rounds up to a whole number of milliseconds
C5_Witness ==
    /\ formatted # NotFormatted
    /\ Number(MilliField(formatted)) = ExactMillis(seconds) + 1

\* C6: in every block the end timestamp, read as a time value, is not before
\* the start timestamp of the same block (start >= 0, duration >= 0); the
\* timestamps are those of the block just appended to srt_content.
C6_EndNotBeforeStart ==
    \A r \in Requests :
        pc[r] \in {"converting", "done"} /\ conv[r].k > 0 =>
            LET seg == transcript[r][conv[r].k]
                tail == conv[r].start_time \o <<" ", "-", "-", ">", " ">>
                            \o conv[r].end_time \o <<"\n">> \o seg.text
                            \o <<"\n", "\n">>
                c == conv[r].srt_content
            IN  /\ Len(c) >= Len(tail)
                /\ SubSeq(c, Len(c) - Len(tail) + 1, Len(c)) = tail
                /\ seg.start >= 0 /\ seg.duration >= 0
                /\ TimeValue(conv[r].end_time) >= TimeValue(conv[r].start_time)

\* a second block that starts before the first one, and ends after it starts
C6_Witness ==
    \E r \in Requests :
        /\ SrtDone(r) /\ HasBody(response[r]) /\ conv[r].k = 2
        /\ transcript[r][2].start < transcript[r][1].start
        /\ TimeValue(conv[r].end_time) > TimeValue(conv[r].start_time)

\* C7: convert_to_srt is invoked only after the fetch of the same request has
\* returned; when the fetch raises, the formatter is never reached and the
\* response carries no srt_content.
C7_ConvertOnlyAfterFetch ==
    \A r \in Requests :
        /\ convertCalls[r] > 0 \/ pc[r] \in {"fetched", "converting"}
               => FetchReturned(r) /\ Len(calls[r]) = 1
        /\ request[r].endpoint = "srt" /\ FetchRaised(r)
               => /\ convertCalls[r] = 0
                  /\ pc[r] = "done"
                  /\ ~HasBody(response[r])
        /\ HasBody(response[r]) /\ "srt_content" \in DOMAIN response[r].body
               => convertCalls[r] = 1 /\ FetchReturned(r)

C7_Witness ==
    \E r \in Requests :
        /\ SrtDone(r) /\ FetchRaised(r)
        /\ convertCalls[r] = 0
        /\ response[r].status_code = 500

\* C8 (as stated): every request to any endpoint makes exactly one call to
\* the transcript library.
C8_OneCallEveryEndpoint ==
    \A r \in Requests : pc[r] = "done" => Len(calls[r]) = 1

ResponseSent(r) == response[r] # NoResponse

\* C8 (amended): there are no retries.  A request to the transcript, the
\* languages or the SRT endpoint makes exactly one call to the transcript
\* library and the root endpoint none; a failure of the call or of the
\* formatting ends the request with its error response and no second call;
\* every finished request has exactly one outcome, a success body or an HTTP
\* error, which never changes afterwards.
C8_NoRetries ==
    /\ [](\A r \in Requests :
            /\ Len(calls[r]) <= 1
            /\ (FetchRaised(r) => pc[r] = "done" /\ response[r].status_code >= 400)
            /\ (pc[r] = "done" <=> ResponseSent(r))
            /\ (pc[r] = "done" =>
                   /\ Len(calls[r]) = (IF request[r].endpoint = "root" THEN 0 ELSE 1)
                   /\ (HasBody(response[r]) <=> response[r].status_code = 200)
                   /\ (HasBody(response[r]) <=> "detail" \notin DOMAIN response[r])))
    /\ [][\A r \in Requests :
            ResponseSent(r) =>
                /\ response'[r] = response[r]
                /\ calls'[r] = calls[r]
                /\ pc'[r] = "done"]_vars

C8_Witness ==
    \E r \in Requests :
        /\ SrtDone(r) /\ FetchReturned(r)
        /\ response[r].status_code = 500
        /\ Len(calls[r]) = 1

\* C9: under every interleaving of concurrent SRT requests each request's
\* srt_content, and each intermediate srt_content, is the formatting of the
\* transcript fetched for that very request; equal transcripts give equal
\* outputs.
C9_OwnTranscriptOnly ==
    /\ \A r \in Requests :
          /\ pc[r] = "converting" /\ AllWellFormed(SubSeq(returned[r].value, 1, conv[r].k))
                 => conv[r].srt_content = RefSrt(SubSeq(returned[r].value, 1, conv[r].k))
          /\ SrtDone(r) /\ HasBody(response[r])
                 => /\ AllWellFormed(returned[r].value)
                    /\ response[r].body.srt_content = RefSrt(returned[r].value)
    /\ \A r1, r2 \in Requests :
          /\ SrtDone(r1) /\ HasBody(response[r1])
          /\ SrtDone(r2) /\ HasBody(response[r2])
          /\ returned[r1].value = returned[r2].value
          => response[r1].body.srt_content = response[r2].body.srt_content

\* two conversions of different transcripts, both in the middle of the loop
C9_Witness ==
    \E r1, r2 \in Requests :
        /\ r1 # r2
        /\ pc[r1] = "converting" /\ conv[r1].k = 1
        /\ pc[r2] = "converting" /\ conv[r2].k = 1
        /\ returned[r1].value # returned[r2].value
        /\ conv[r1].srt_content # conv[r2].srt_content

\* C10: at the transcript endpoint TranscriptsDisabled and NoTranscriptFound
\* give 404 and every other exception 500; a success body carries the
\* requested video_id, the fetched transcript unchanged, and the language
\* supplied when one is supplied and not empty, otherwise "auto".
C10_TranscriptEndpoint ==
    \A r \in Requests :
        request[r].endpoint = "transcript" /\ pc[r] = "done" =>
            /\ (returned[r].error \in NotFoundErrors
                   => response[r].status_code = 404 /\ ~HasBody(response[r]))
            /\ (FetchRaised(r) /\ returned[r].error \notin NotFoundErrors
                   => response[r].status_code = 500 /\ ~HasBody(response[r]))
            /\ (FetchReturned(r) =>
                   /\ response[r].status_code = 200
                   /\ response[r].body.video_id = request[r].video_id
                   /\ response[r].body.transcript = returned[r].value
                   /\ response[r].body.language =
                          (IF request[r].language \in {NoLanguage, ""}
                           THEN "auto" ELSE request[r].language))

C10_Witness ==
    \E r \in Requests :
        /\ request[r].endpoint = "transcript" /\ pc[r] = "done"
        /\ FetchReturned(r)
        /\ request[r].language = ""
        /\ response[r].body.language = "auto"
        /\ Len(response[r].body.transcript) = MaxSegs

====
